---- MODULE Spec2Model ----
(***************************************************************************)
(* Log/HAR normalization and failure-pattern detection pipeline.           *)
(*                                                                         *)
(* Text is modelled as a sequence of tokens (each token an atomic piece of *)
(* text, " " a run of whitespace), so that substring tests, prefix tests,  *)
(* strip(), replace() and split() are computed and not assumed.            *)
(* A Python dict is a TLA+ record read through DOMAIN tests; a Python      *)
(* value of varying type is a one-field record whose field names the type  *)
(* ([null |-> TRUE], [str |-> ...], [int |-> ...]).                        *)
(***************************************************************************)
EXTENDS Naturals, Integers, Sequences, FiniteSets, TLC

VARIABLES
    \* ---- parse_log_files, one step per file event or line
    pc,             \* "files" (top of the for-file loop) | "lines" | "done"
    file_no,        \* how many files of the input list were taken so far
    filename,       \* the name of the file being scanned
    current_entry,  \* None or the open entry
    error_trace,    \* the trace buffer
    in_traceback,   \* the in-traceback flag
    results,        \* the accumulated output of parse_log_files
    parsed_logs,    \* data/processed/parsed_logs.json: NoFile or its content
    nread,          \* lines read so far, over all files
    base,           \* history: Len(results) when the current file was opened
    open_line,      \* history: the start-marker line of the run in progress
                    \*          (NoLine: none read in this file, or its entry is out)
    shape,          \* history: how far the lines of the current file follow
                    \*          the round-trip stream, and the values it names
    alone,          \* history: the files normalized one by one, each alone
    steps_due,      \* history: the plain lines read while the open entry was
                    \*          open and not in a traceback, and the same for
                    \*          each entry put out
    \* ---- parse_har_files, one step per file event or entry
    har_input,      \* the input: the files and their entries, as one stream
    har_pos,        \* how many items of har_input were consumed
    har_pc,         \* "run" (inside the for-file loop) | "done"
    har_fno,        \* how many files of the input list were taken so far
    har_name,       \* the name of the file being processed
    har_results,    \* the accumulated output of parse_har_files
    parsed_har,     \* data/processed/parsed_har.json: NoFile or its content
    har_run,        \* which run of parse_har_files on har_input this is
    har_first,      \* history: what the first run returned
    \* ---- DataHandler.process_files and load_parsed_data
    batch_no,       \* how many batches have run
    har_returned,   \* what parse_har_files returned in the last batch
    log_returned,   \* what parse_log_files returned in the last batch
    batch_result,   \* what process_files returned in the last batch
    loaded,         \* what load_parsed_data returned last
    \* ---- FailurePatternDetector
    det_har,        \* the har_data argument
    det_log,        \* the log_data argument
    det_pc,         \* "new" | "built" | "done" | "raised"
    self_har_data,  \* self.har_data
    self_log_data,  \* self.log_data
    summary,        \* what generate_summary returned
    \* ---- analyze_payment_flows
    flow_har,       \* the har_data argument
    flow_log,       \* the log_data argument
    flow_pc,        \* "new" | "done" | "raised"
    flow_df,        \* the DataFrame returned
    \* ---- a JSON log file in parse_log_files
    json_logs,      \* the list json.loads gives, sorted once the conversion began
    json_pc,        \* "new" | "records" (in the for-log loop) | "done"
    json_pos,       \* how many records the loop has taken
    current_service,   \* current_service of convert_json_to_traditional
    traditional_lines, \* traditional_lines of convert_json_to_traditional
    json_results    \* the entries parse_log_files returns for the file

log_vars == <<pc, file_no, filename, current_entry, error_trace, in_traceback,
              results, parsed_logs, nread, base, open_line, shape, alone,
              steps_due>>

har_vars == <<har_input, har_pos, har_pc, har_fno, har_name, har_results,
              parsed_har, har_run, har_first>>

log_rest == <<pc, file_no, filename, current_entry, error_trace, in_traceback,
              results, nread, base, open_line, shape, alone, steps_due>>

har_rest == <<har_input, har_pos, har_pc, har_fno, har_name, har_results,
              har_run, har_first>>

batch_vars == <<batch_no, har_returned, log_returned, batch_result, loaded>>

det_vars == <<det_har, det_log, det_pc, self_har_data, self_log_data, summary>>

flow_vars == <<flow_har, flow_log, flow_pc, flow_df>>

json_vars == <<json_logs, json_pc, json_pos, current_service, traditional_lines,
               json_results>>

vars == <<log_vars, har_vars, batch_vars, det_vars, flow_vars, json_vars>>

-----------------------------------------------------------------------------
(* Values *)

None == [null |-> TRUE]
Str(s) == [str |-> s]
Num(n) == [int |-> n]
NoFile == [nofile |-> TRUE]
FileOf(c) == [content |-> c]

-----------------------------------------------------------------------------
(* Text primitives over token sequences *)

WS == " "

\* pattern in text
Contains(text, pattern) ==
    \E i \in 0..(Len(text) - Len(pattern)) :
        SubSeq(text, i + 1, i + Len(pattern)) = pattern

\* text.startswith(pattern)
StartsWith(text, pattern) ==
    /\ Len(text) >= Len(pattern)
    /\ SubSeq(text, 1, Len(pattern)) = pattern

\* index (0-based) of the first occurrence of pattern in text; text must contain it
FirstIndex(text, pattern) ==
    CHOOSE i \in 0..(Len(text) - Len(pattern)) :
        /\ SubSeq(text, i + 1, i + Len(pattern)) = pattern
        /\ \A j \in 0..(i - 1) : SubSeq(text, j + 1, j + Len(pattern)) # pattern

RECURSIVE LStrip(_)
LStrip(text) ==
    IF text # <<>> /\ Head(text) = WS THEN LStrip(Tail(text)) ELSE text

RECURSIVE RStrip(_)
RStrip(text) ==
    IF text # <<>> /\ text[Len(text)] = WS
    THEN RStrip(SubSeq(text, 1, Len(text) - 1))
    ELSE text

\* text.strip()
Strip(text) == RStrip(LStrip(text))

\* text.replace(pattern, with): every non-overlapping occurrence, left to right
RECURSIVE Replace(_, _, _)
Replace(text, pattern, with) ==
    IF ~Contains(text, pattern) THEN text
    ELSE LET i == FirstIndex(text, pattern)
         IN  SubSeq(text, 1, i) \o with
             \o Replace(SubSeq(text, i + Len(pattern) + 1, Len(text)), pattern, with)

\* text.split(sep)[-1]
RECURSIVE SplitLast(_, _)
SplitLast(text, sep) ==
    IF ~Contains(text, sep) THEN text
    ELSE SplitLast(SubSeq(text, FirstIndex(text, sep) + Len(sep) + 1, Len(text)), sep)

\* text.split(sep)[0]
SplitFirst(text, sep) ==
    IF ~Contains(text, sep) THEN text
    ELSE SubSeq(text, 1, FirstIndex(text, sep))

-----------------------------------------------------------------------------
(* Marker strings of the log normalizer *)

StartMarker == <<"====", " ", "Logging started", " ", "for">>
EndMarker == <<"====", " ", "Logging ended">>
ForSep == <<"for", " ">>
TrailMarker == <<" ", "====">>
FourEq == <<"====">>
TaskUrlMarker == <<"Task URL:">>
TracebackMarker == <<"Traceback">>
FileMarker == <<"File">>
ErrorColon == <<"Error", ":">>
ExceptionColon == <<"Exception", ":">>
ExceptionPrefixes == { <<"commons.exceptions">>, <<"Exception">> }

\* filename.split('.')[0]
FileId(name) == SplitFirst(name, <<".">>)

\* line.split("for ")[-1].replace(" ====", "").strip()
ServiceOf(line) == Strip(Replace(SplitLast(line, ForSep), TrailMarker, <<>>))

\* line.replace("Task URL:", "").strip()
TaskUrlOf(line) == Strip(Replace(line, TaskUrlMarker, <<>>))

\* line.startswith(("commons.exceptions", "Exception"))
IsTerminator(line) == \E p \in ExceptionPrefixes : StartsWith(line, p)

\* the first element of seq satisfying Test, as Str, or None
FirstWith(seq, Test(_)) ==
    IF \E i \in 1..Len(seq) : Test(seq[i])
    THEN Str(seq[CHOOSE i \in 1..Len(seq) :
                    Test(seq[i]) /\ \A j \in 1..(i - 1) : ~Test(seq[j])])
    ELSE None

\* the last element of seq satisfying Test, as Str, or None
LastWith(seq, Test(_)) ==
    IF \E i \in 1..Len(seq) : Test(seq[i])
    THEN Str(seq[CHOOSE i \in 1..Len(seq) :
                    Test(seq[i]) /\ \A j \in (i + 1)..Len(seq) : ~Test(seq[j])])
    ELSE None

HasErrorWord(line) == Contains(line, ErrorColon) \/ Contains(line, ExceptionColon)
HasFileWord(line) == Contains(line, FileMarker)

\* the type is taken from the first line of the trace
parse_error_trace_first(trace_lines) ==
    [ type       |-> IF trace_lines # <<>> THEN Str(trace_lines[1]) ELSE None,
      message    |-> LastWith(trace_lines, HasErrorWord),
      location   |-> FirstWith(trace_lines, HasFileWord),
      full_trace |-> trace_lines ]

parse_error_trace(trace_lines) ==
    [ type       |-> IF trace_lines # <<>> THEN Str(trace_lines[Len(trace_lines)])
                     ELSE None,
      message    |-> LastWith(trace_lines, HasErrorWord),
      location   |-> FirstWith(trace_lines, HasFileWord),
      full_trace |-> trace_lines ]

\* the entry a start-marker line opens
NewEntry(name, line) ==
    [ file_id       |-> FileId(name),
      service       |-> ServiceOf(line),
      task_url      |-> None,
      steps         |-> <<>>,
      status        |-> "success",
      error_message |-> None,
      error_details |-> None ]

\* s = [cur, trace, intb, out] is the scanner state: current_entry, error_trace,
\* in_traceback, results. One operator per branch of the for-line loop.

\* a start-marker line while an entry is open also puts the open entry out
OnStartMarkerFlush(s, name, line) ==
    [s EXCEPT !.cur = NewEntry(name, line),
              !.out = IF s.cur # None THEN Append(@, s.cur) ELSE @]

OnStartMarker(s, name, line) ==
    [s EXCEPT !.cur = NewEntry(name, line)]

OnTaskUrl(s, line) ==
    [s EXCEPT !.cur.task_url = Str(TaskUrlOf(line))]

OnTraceback(s, line) ==
    [s EXCEPT !.intb = TRUE, !.trace = <<line>>]

\* an end-marker line read during a traceback puts the open entry out
OnTraceLineEnding(s, line) ==
    LET tr == Append(s.trace, line) IN
    IF Contains(line, EndMarker)
    THEN [s EXCEPT !.out = Append(@, s.cur), !.cur = None, !.intb = FALSE]
    ELSE IF IsTerminator(line)
    THEN [s EXCEPT !.trace = tr,
                   !.cur.error_message = Str(line),
                   !.cur.error_details = parse_error_trace(tr),
                   !.cur.status = "failed",
                   !.intb = FALSE]
    ELSE [s EXCEPT !.trace = tr]

OnTraceLine(s, line) ==
    LET tr == Append(s.trace, line) IN
    IF IsTerminator(line)
    THEN [s EXCEPT !.trace = tr,
                   !.cur.error_message = Str(line),
                   !.cur.error_details = parse_error_trace(tr),
                   !.cur.status = "failed",
                   !.intb = FALSE]
    ELSE [s EXCEPT !.trace = tr]

\* a step is recorded once only
OnStepOnce(s, line) ==
    [s EXCEPT !.cur.steps = IF \E i \in 1..Len(@) : @[i] = line THEN @
                            ELSE Append(@, line)]

OnStep(s, line) ==
    [s EXCEPT !.cur.steps = Append(@, line)]

OnEndMarker(s) ==
    [s EXCEPT !.out = Append(@, s.cur), !.cur = None]

\* The body of the for-line loop: the scanner state after one raw line.
ScanLine(s, name, raw) ==
    LET line == Strip(raw) IN
    IF Contains(line, StartMarker) THEN OnStartMarker(s, name, line)
    ELSE IF s.cur # None
    THEN IF Contains(line, TaskUrlMarker) THEN OnTaskUrl(s, line)
         ELSE IF Contains(line, TracebackMarker) THEN OnTraceback(s, line)
         ELSE IF s.intb THEN OnTraceLine(s, line)
         ELSE IF ~s.intb /\ line # <<>> /\ ~StartsWith(line, FourEq)
         THEN OnStep(s, line)
         ELSE IF Contains(line, EndMarker) /\ s.cur # None THEN OnEndMarker(s)
         ELSE s
    ELSE s

-----------------------------------------------------------------------------
(* Inputs of the log scanner *)


MaxLines == 6
MaxLogFiles == 2

SvcA == <<"svcA">>
SvcB == <<"svcB">>
Services == { SvcA, SvcB }
Url1 == <<"https://example.com/task/1">>
Urls == { Url1 }

StartLine(svc) == StartMarker \o <<" ">> \o svc \o <<" ", "====">>
TaskLine(url) == <<"Task URL:", " ">> \o url

LnStartA == StartLine(SvcA)
LnStartB == StartLine(SvcB)
LnTask == TaskLine(Url1)
LnStep == <<" ", "step one">>
LnTraceback == <<"Traceback", " ", "(most recent call last):">>
LnFile == <<" ", "File", " ", "main.py">>
LnTraceUrl == <<" ", "log(", "Task URL:", " ", "%s)">>
LnExc == <<"Exception", ":", " ", "boom">>
LnCommons == <<"commons.exceptions", ".Timeout">>
LnEnd == <<"====", " ", "Logging ended", " ", "====">>
LnMidEnd == <<"done", " ", "====", " ", "Logging ended", " ", "====">>
LnEmpty == <<>>

LogLines == { LnStartA, LnStartB, LnTask, LnStep, LnTraceback, LnFile, LnTraceUrl,
              LnExc, LnCommons, LnEnd, LnMidEnd, LnEmpty }

\* an exception line whose text quotes a Task URL
LnExcUrl == <<"Exception", ":", " ", "Failed to fetch", " ", "Task URL:", " ">> \o Url1

ScanLines == LogLines \cup { LnExcUrl }

\* the input list of files (names); the contents are read line by line
LogFileNames ==
    << <<"t1", ".", "log">>, <<"t2", ".", "v2", ".", "log">>, <<"t3", ".", "log">>,
       <<"t4", ".", "txt">> >>

-----------------------------------------------------------------------------
(* History of the stream read, kept beside the scanner (read by the         *)
(* properties only, never by the scanner)                                   *)

NoLine == [noline |-> TRUE]

HasStartMarker(raw) == Contains(Strip(raw), StartMarker)
HasEndMarker(raw) == Contains(Strip(raw), EndMarker)

\* a plain step line: not empty, not a "====" line, no Task URL, no Traceback
IsPlainLine(raw) ==
    LET l == Strip(raw) IN
    /\ l # <<>>
    /\ ~StartsWith(l, FourEq)
    /\ ~Contains(l, TaskUrlMarker)
    /\ ~Contains(l, TracebackMarker)
    /\ ~Contains(l, StartMarker)

IsTracebackLine(raw) ==
    LET l == Strip(raw) IN
    /\ Contains(l, TracebackMarker)
    /\ ~Contains(l, TaskUrlMarker)
    /\ ~Contains(l, StartMarker)

\* a line E starting with 'Exception' or 'commons.exceptions' (and no marker in it)
IsExceptionLine(raw) ==
    LET l == Strip(raw) IN
    /\ \E p \in ExceptionPrefixes : StartsWith(l, p)
    /\ ~Contains(l, TaskUrlMarker)
    /\ ~Contains(l, TracebackMarker)
    /\ ~Contains(l, StartMarker)

\* an end-marker line: "==== Logging ended ..."
IsEndLine(raw) == StartsWith(Strip(raw), EndMarker)

\* a trace line that holds no marker of its own
IsQuietTraceLine(raw) ==
    LET l == Strip(raw) IN
    /\ ~Contains(l, TaskUrlMarker)
    /\ ~Contains(l, StartMarker)

ShapeBegin ==
    [ph |-> "begin", svc |-> <<>>, url |-> <<>>, steps |-> <<>>, exc |-> <<>>,
     quiet |-> TRUE]
ShapeOff == [ShapeBegin EXCEPT !.ph = "off"]

\* The stream of the round trip: a start-marker line for svc, a 'Task URL: url'
\* line, plain step lines, a 'Traceback' line, any trace lines, one line exc
\* starting with an exception prefix, an end-marker line.
ShapeStep(g, raw) ==
    LET l == Strip(raw) IN
    IF g.ph = "begin"
    THEN IF \E svc \in Services : l = StartLine(svc)
         THEN [g EXCEPT !.ph = "started",
                        !.svc = CHOOSE svc \in Services : l = StartLine(svc)]
         ELSE ShapeOff
    ELSE IF g.ph = "started"
    THEN IF \E url \in Urls : l = TaskLine(url)
         THEN [g EXCEPT !.ph = "steps",
                        !.url = CHOOSE url \in Urls : l = TaskLine(url)]
         ELSE ShapeOff
    ELSE IF g.ph = "steps"
    THEN IF IsPlainLine(raw) THEN [g EXCEPT !.steps = Append(@, l)]
         ELSE IF IsTracebackLine(raw) THEN [g EXCEPT !.ph = "trace"]
         ELSE ShapeOff
    ELSE IF g.ph = "trace"
    THEN IF IsExceptionLine(raw) THEN [g EXCEPT !.ph = "exc", !.exc = l]
         ELSE [g EXCEPT !.quiet = @ /\ IsQuietTraceLine(raw)]
    ELSE IF g.ph = "exc"
    THEN IF IsEndLine(raw) THEN [g EXCEPT !.ph = "end"] ELSE ShapeOff
    ELSE ShapeOff

-----------------------------------------------------------------------------
(* parse_log_files, step by step *)

\* the scanner as a file is opened: no entry, no trace, not in a traceback
ScannerReset(out) == [cur |-> None, trace |-> <<>>, intb |-> FALSE, out |-> out]

\* The files normalized one by one: before is the concatenation of what the
\* files before the current one give, each alone; st is the scanner of a run that
\* reads the current file alone; left_open tells that a file before ended with
\* an entry still open.
AloneBegin == [before |-> <<>>, st |-> ScannerReset(<<>>), left_open |-> FALSE]

AloneNextFile(a, cur) ==
    [before |-> a.before \o a.st.out, st |-> ScannerReset(<<>>),
     left_open |-> a.left_open \/ cur # None]

\* a line the steps of an entry are made of: not empty, not a "====" line, no
\* Task URL, no Traceback
IsStepLine(raw) ==
    LET l == Strip(raw) IN
    /\ l # <<>>
    /\ ~StartsWith(l, FourEq)
    /\ ~Contains(l, TaskUrlMarker)
    /\ ~Contains(l, TracebackMarker)

StepsDueBegin == [open |-> <<>>, out |-> <<>>]

\* d after the line raw is read with an entry open or not (is_open), the flag
\* intb, and the output having grown by an entry or not (put_out)
StepsDueLine(d, is_open, intb, put_out, raw) ==
    IF HasStartMarker(raw) THEN [d EXCEPT !.open = <<>>]
    ELSE IF put_out THEN [open |-> <<>>, out |-> Append(d.out, d.open)]
    ELSE IF is_open /\ ~intb /\ IsStepLine(raw)
    THEN [d EXCEPT !.open = Append(@, Strip(raw))]
    ELSE d

LogInit ==
    /\ pc = "files"
    /\ file_no = 0
    /\ filename = <<>>
    /\ current_entry = None
    /\ error_trace = <<>>
    /\ in_traceback = FALSE
    /\ results = <<>>
    /\ parsed_logs = NoFile
    /\ nread = 0
    /\ base = 0
    /\ open_line = NoLine
    /\ shape = ShapeOff
    /\ alone = AloneBegin
    /\ steps_due = StepsDueBegin

\* the next file is opened and the scanner is left as the file before left it
OpenFileKeepingScanner ==
    /\ pc = "files"
    /\ file_no < MaxLogFiles
    /\ file_no' = file_no + 1
    /\ filename' = LogFileNames[file_no + 1]
    /\ base' = Len(results)
    /\ open_line' = NoLine
    /\ shape' = ShapeBegin
    /\ alone' = AloneNextFile(alone, current_entry)
    /\ pc' = "lines"
    /\ UNCHANGED <<current_entry, error_trace, in_traceback, results, parsed_logs, nread,
                   steps_due>>

\* for file in files: the content is read and decoded; the scanner is reset
OpenFile ==
    /\ pc = "files"
    /\ file_no < MaxLogFiles
    /\ file_no' = file_no + 1
    /\ filename' = LogFileNames[file_no + 1]
    /\ current_entry' = None
    /\ error_trace' = <<>>
    /\ in_traceback' = FALSE
    /\ base' = Len(results)
    /\ open_line' = NoLine
    /\ shape' = ShapeBegin
    /\ alone' = AloneNextFile(alone, current_entry)
    /\ steps_due' = [steps_due EXCEPT !.open = <<>>]
    /\ pc' = "lines"
    /\ UNCHANGED <<results, parsed_logs, nread>>

\* reading or decoding the file raises: the file is reported and skipped
SkipFile ==
    /\ pc = "files"
    /\ file_no < MaxLogFiles
    /\ file_no' = file_no + 1
    /\ filename' = LogFileNames[file_no + 1]
    /\ base' = Len(results)
    /\ open_line' = NoLine
    /\ shape' = ShapeOff
    /\ alone' = AloneNextFile(alone, current_entry)
    /\ UNCHANGED <<pc, current_entry, error_trace, in_traceback, results,
                   parsed_logs, nread, steps_due>>

\* one iteration of for line in log_lines
ReadLine(raw) ==
    /\ pc = "lines"
    /\ nread < MaxLines
    /\ nread' = nread + 1
    /\ LET s == ScanLine([cur |-> current_entry, trace |-> error_trace,
                          intb |-> in_traceback, out |-> results], filename, raw)
       IN  /\ current_entry' = s.cur
           /\ error_trace' = s.trace
           /\ in_traceback' = s.intb
           /\ results' = s.out
           /\ open_line' = IF HasStartMarker(raw) THEN raw
                           ELSE IF s.out # results THEN NoLine
                           ELSE open_line
           /\ steps_due' = StepsDueLine(steps_due, current_entry # None,
                                        in_traceback, Len(s.out) > Len(results), raw)
    /\ shape' = ShapeStep(shape, raw)
    /\ alone' = [alone EXCEPT !.st = ScanLine(@, filename, raw)]
    /\ UNCHANGED <<pc, file_no, filename, parsed_logs, base>>

\* log_lines is exhausted: back to the top of the file loop
EndOfFile ==
    /\ pc = "lines"
    /\ pc' = "files"
    /\ UNCHANGED <<file_no, filename, current_entry, error_trace, in_traceback,
                   results, parsed_logs, nread, base, open_line, shape, alone,
                   steps_due>>

\* the save writes only a result that is not empty
SavedLogsIfAny(out, old) == IF out # <<>> THEN FileOf(out) ELSE old

\* what the save does to parsed_logs.json: always written
SavedLogs(out, old) == FileOf(out)

\* the file loop is over: json.dump(results) to parsed_logs.json, return results
SaveLogs ==
    /\ pc = "files"
    /\ parsed_logs' = SavedLogs(results, parsed_logs)
    /\ pc' = "done"
    /\ UNCHANGED <<file_no, filename, current_entry, error_trace, in_traceback,
                   results, nread, base, open_line, shape, alone, steps_due>>


-----------------------------------------------------------------------------
(* HAR normalizer: values *)

\* d.get(k, default)
Get(d, k, default) == IF k \in DOMAIN d THEN d[k] ELSE default

\* isinstance(v, (int, float))
IsNumber(v) == "int" \in DOMAIN v

\* A header name is its lower-case spelling and how it is capitalised.
HeaderName(b, caps) == [base |-> b, caps |-> caps]

\* name.lower()
Lower(name) == [name EXCEPT !.caps = "lower"]

Redacted == "[REDACTED]"

sensitive_headers ==
    { HeaderName("cookie", "lower"), HeaderName("authorization", "lower"),
      HeaderName("x-csrf-token", "lower") }

\* the comparison is made on the name as spelled, without lower()
sanitize_header_value_cased(name, value) ==
    IF name \in sensitive_headers THEN Redacted ELSE value

sanitize_header_value(name, value) ==
    IF Lower(name) \in sensitive_headers THEN Redacted ELSE value

\* {h["name"]: sanitize_header_value(h["name"], h["value"]) for h in headers}:
\* a later header of the same name replaces an earlier one
HeaderDict(hs) ==
    [ n \in { hs[i].name : i \in 1..Len(hs) } |->
        LET last == CHOOSE i \in 1..Len(hs) :
                        hs[i].name = n /\ \A j \in (i + 1)..Len(hs) : hs[j].name # n
        IN  sanitize_header_value(n, hs[last].value) ]

\* str(n), for the status codes of the inputs
CodeText(n) ==
    CASE n = 200 -> "200" [] n = 302 -> "302" [] n = 399 -> "399"
      [] n = 400 -> "400" [] n = 404 -> "404" [] n = 500 -> "500"

\* f"HTTP {status_code}: {text}"
HttpMessage(code, text) == <<"HTTP ", CodeText(code), ": ", text>>

\* f"Redirect to: {url}"
RedirectMessage(url) == <<"Redirect to: ", url>>

\* response.get('statusText', 'Error')
StatusText(response) == Get(response, "statusText", "Error")

\* response.get('redirectURL', 'unknown')
RedirectTarget(response) == Get(response, "redirectURL", "unknown")

\* a client or server error: status_code >= 400
IsErrorStatus(status_code) == status_code # None /\ status_code.int >= 400

\* the error_message of an entry, lines 89-94
ErrorMessageOf(status_code, response) ==
    IF IsErrorStatus(status_code)
    THEN Str(HttpMessage(status_code.int, StatusText(response)))
    ELSE IF status_code = Num(302)
    THEN Str(RedirectMessage(RedirectTarget(response)))
    ELSE None

Skipped == [skipped |-> TRUE]

\* The body of the for-entry loop: the HarEntry of one source entry, or Skipped
\* when the body raises (KeyError for a missing key, TypeError for a status that
\* cannot be compared with 400), which the loop logs before it goes on.
har_entry(file_id, entry) ==
    IF ~({"request", "response", "timings"} \subseteq DOMAIN entry) THEN Skipped
    ELSE LET request == entry.request
             response == entry.response
             timings == entry.timings
             total == Get(timings, "total", None)
             hs == Get(request, "headers", <<>>)
             status_code == Get(response, "status", None)
         IN  IF \E i \in 1..Len(hs) : ~({"name", "value"} \subseteq DOMAIN hs[i])
             THEN Skipped
             ELSE IF status_code # None /\ ~IsNumber(status_code) THEN Skipped
             ELSE [ file_id         |-> file_id,
                    url             |-> Get(request, "url", <<>>),
                    method          |-> Get(request, "method", ""),
                    status_code     |-> status_code,
                    response_time   |-> IF IsNumber(total) THEN total ELSE None,
                    response_size   |-> Get(response, "bodySize", 0),
                    request_headers |-> HeaderDict(hs),
                    error_message   |-> ErrorMessageOf(status_code, response) ]

-----------------------------------------------------------------------------
(* HAR normalizer: inputs *)

MaxHarItems == 5

H(name, value) == [name |-> name, value |-> value]

UrlItems == <<"https://", "host", "/", "api", "/", "items">>
UrlLogin == <<"https://", "host", "/", "login">>
UrlRoot == <<"https://", "host", "/">>

HdrCookie1 == << H(HeaderName("cookie", "Title"), "sid=1"),
                 H(HeaderName("accept", "lower"), "json") >>
HdrCookie2 == << H(HeaderName("cookie", "Title"), "sid=2"),
                 H(HeaderName("accept", "lower"), "json") >>
HdrAuth == << H(HeaderName("authorization", "lower"), "Bearer t"),
              H(HeaderName("x-csrf-token", "Title"), "c1") >>
HdrUpper == << H(HeaderName("cookie", "UPPER"), "sid=1"),
               H(HeaderName("set-cookie", "lower"), "x=1"),
               H(HeaderName("accept", "lower"), "a"),
               H(HeaderName("accept", "lower"), "b") >>
HdrTwice == << H(HeaderName("cookie", "Title"), "sid=1"),
               H(HeaderName("cookie", "Title"), "sid=2") >>
HdrNoValue == << [name |-> HeaderName("accept", "lower")] >>

RichRequests ==
    { [url |-> UrlItems, method |-> "GET", headers |-> hs] :
        hs \in { HdrCookie1, HdrCookie2, HdrAuth, HdrUpper, HdrTwice, HdrNoValue } }
    \cup { [url |-> UrlLogin] }

RichResponses ==
    { [status |-> Num(200), statusText |-> "OK", bodySize |-> 120],
      [status |-> Num(404), statusText |-> "Not Found", bodySize |-> 120],
      [status |-> Num(404), statusText |-> "", bodySize |-> 0],
      [status |-> Num(404), bodySize |-> 0],
      [status |-> Num(500), statusText |-> "Server Error"],
      [status |-> Num(400), statusText |-> "Bad Request", bodySize |-> 0],
      [status |-> Num(399), statusText |-> "Odd", bodySize |-> 0],
      [status |-> Num(302), statusText |-> "Found", redirectURL |-> "https://x"],
      [status |-> Num(302), statusText |-> "Found", redirectURL |-> ""],
      [status |-> Num(302), statusText |-> "Found"],
      [statusText |-> "", bodySize |-> 0],
      [status |-> None, bodySize |-> 0],
      [status |-> Str("404"), statusText |-> "Not Found"] }

RichTimings ==
    { [total |-> Num(35)], [wait |-> Num(3)], [total |-> Str("n/a")] }

RichPool ==
    { [request |-> rq, response |-> rs, timings |-> tm] :
        rq \in RichRequests, rs \in RichResponses, tm \in RichTimings }

Good1 == [ request  |-> [url |-> UrlItems, method |-> "GET", headers |-> HdrCookie1],
           response |-> [status |-> Num(404), statusText |-> "Not Found",
                         bodySize |-> 120],
           timings  |-> [total |-> Num(35)] ]
Good2 == [ request  |-> [url |-> UrlLogin, method |-> "POST", headers |-> HdrAuth],
           response |-> [status |-> Num(200), statusText |-> "OK", bodySize |-> 7],
           timings  |-> [total |-> Num(35)] ]
NoTimings == [ request  |-> [url |-> UrlRoot, method |-> "GET"],
               response |-> [status |-> Num(500)] ]
NoRequest == [ response |-> [status |-> Num(500)], timings |-> [total |-> Num(1)] ]
NoResponse == [ request |-> [url |-> UrlRoot, method |-> "GET"],
                timings |-> [total |-> Num(1)] ]

SmallPool == { Good1, Good2, NoTimings, NoRequest, NoResponse }

\* The input of one run is a stream of items: [file |-> kind] starts the next
\* file of the list ("ok": readable JSON with log.entries; "invalid": reading or
\* json.loads raises; "nokeys": har_data['log']['entries'] raises KeyError), and
\* [entry |-> e] is the next element of the entries of the file started last.
FileKinds == { "ok", "invalid", "nokeys" }
IsFileItem(it) == "file" \in DOMAIN it
IsEntryItem(it) == "entry" \in DOMAIN it
HarItems(pool) == { [file |-> k] : k \in FileKinds } \cup { [entry |-> e] : e \in pool }

\* entries follow only a file that has them
ValidStream(s) ==
    \A i \in 1..Len(s) :
        IsEntryItem(s[i]) =>
            /\ i > 1
            /\ \/ IsEntryItem(s[i - 1])
               \/ s[i - 1] = [file |-> "ok"]

StreamsOver(items, n) ==
    { s \in UNION { [1..k -> items] : k \in 0..n } : ValidStream(s) }

HarInputs ==
    StreamsOver(HarItems(SmallPool), MaxHarItems)
    \cup { << [file |-> "ok"], [entry |-> e] >> : e \in RichPool }

HarStems == <<"t1", "abc", "t3", "t4", "t5", "t6", "t7", "t8">>

\* the name of the k-th file of the list
HarFileName(k) ==
    IF k = 2 THEN <<"abc", ".", "def", ".", "har">> ELSE <<HarStems[k], ".", "har">>

OldHar == << [file_id |-> <<"old">>, url |-> UrlRoot, method |-> "GET",
              status_code |-> Num(200), response_time |-> None,
              response_size |-> 0, request_headers |-> <<>>,
              error_message |-> None] >>

-----------------------------------------------------------------------------
(* parse_har_files, step by step *)

\* results.append(...) unless the body of the entry loop raised
AppendEntry(out, r) == IF r = Skipped THEN out ELSE Append(out, r)

\* where the loop goes after an entry when an entry that raises ends its file
AfterEntrySkippingFile(r, pos, input) ==
    IF r = Skipped
    THEN IF \E j \in (pos + 1)..Len(input) : IsFileItem(input[j])
         THEN (CHOOSE j \in (pos + 1)..Len(input) :
                  IsFileItem(input[j])
                  /\ \A k \in (pos + 1)..(j - 1) : ~IsFileItem(input[k])) - 1
         ELSE Len(input)
    ELSE pos

\* where the loop goes after the entry at pos: on to the next item, also when
\* the entry raised (except ...: continue)
AfterEntry(r, pos, input) == pos

\* the save writes whatever results holds
SavedHarAlways(out, old) == FileOf(out)

\* what the save does to parsed_har.json: written only when results is non-empty
SavedHar(out, old) == IF out # <<>> THEN FileOf(out) ELSE old

MaxHarRuns == 2

\* the run starts from the records persisted before
results_from_file(old) == IF old = NoFile THEN <<>> ELSE old.content

\* results = []
results_at_start(old) == <<>>

HarInit ==
    /\ har_input \in HarInputs
    /\ har_pos = 0
    /\ har_pc = "run"
    /\ har_fno = 0
    /\ har_name = <<>>
    /\ parsed_har \in { NoFile, FileOf(OldHar) }
    /\ har_results = results_at_start(parsed_har)
    /\ har_run = 1
    /\ har_first = <<>>

HarNextItem == har_input[har_pos + 1]

\* for file in files: the file is read and parsed, its entries are there
HarOpenFile ==
    /\ har_pc = "run"
    /\ har_pos < Len(har_input)
    /\ HarNextItem = [file |-> "ok"]
    /\ har_pos' = har_pos + 1
    /\ har_fno' = har_fno + 1
    /\ har_name' = HarFileName(har_fno + 1)
    /\ UNCHANGED <<har_input, har_pc, har_results, parsed_har, har_run, har_first>>

\* the file cannot be read or parsed, or has no log.entries: logged and skipped
HarSkipFile ==
    /\ har_pc = "run"
    /\ har_pos < Len(har_input)
    /\ IsFileItem(HarNextItem)
    /\ HarNextItem # [file |-> "ok"]
    /\ har_pos' = har_pos + 1
    /\ har_fno' = har_fno + 1
    /\ har_name' = HarFileName(har_fno + 1)
    /\ UNCHANGED <<har_input, har_pc, har_results, parsed_har, har_run, har_first>>

\* one iteration of for entry in har_data['log']['entries']
HarReadEntry ==
    /\ har_pc = "run"
    /\ har_pos < Len(har_input)
    /\ IsEntryItem(HarNextItem)
    /\ LET r == har_entry(FileId(har_name), HarNextItem.entry)
       IN  /\ har_results' = AppendEntry(har_results, r)
           /\ har_pos' = AfterEntry(r, har_pos + 1, har_input)
    /\ UNCHANGED <<har_input, har_pc, har_fno, har_name, parsed_har, har_run, har_first>>

\* the file loop is over: save when there is something to save, return results
HarSave ==
    /\ har_pc = "run"
    /\ har_pos = Len(har_input)
    /\ har_pc' = "done"
    /\ parsed_har' = SavedHar(har_results, parsed_har)
    /\ har_first' = IF har_run = 1 THEN har_results ELSE har_first
    /\ UNCHANGED <<har_input, har_pos, har_fno, har_name, har_results, har_run>>

\* parse_har_files is called again on the same files
HarRunAgain ==
    /\ har_pc = "done"
    /\ har_input # <<>>
    /\ har_run < MaxHarRuns
    /\ har_run' = har_run + 1
    /\ har_pc' = "run"
    /\ har_pos' = 0
    /\ har_fno' = 0
    /\ har_name' = <<>>
    /\ har_results' = results_at_start(parsed_har)
    /\ UNCHANGED <<har_input, parsed_har, har_first>>

HarIdle ==
    /\ har_input = <<>>
    /\ har_pos = 0
    /\ har_pc = "done"
    /\ har_fno = 0
    /\ har_name = <<>>
    /\ har_results = <<>>
    /\ parsed_har = NoFile
    /\ har_run = 1
    /\ har_first = <<>>

-----------------------------------------------------------------------------
(* The two normalizers as functions of their input *)

\* parse_har_files run to the end of the stream s: the entries appended from
\* item i on, k files having started, out being the result so far
RECURSIVE HarFold(_, _, _, _)
HarFold(s, i, k, out) ==
    IF i > Len(s) THEN out
    ELSE IF IsFileItem(s[i]) THEN HarFold(s, i + 1, k + 1, out)
    ELSE LET r == har_entry(FileId(HarFileName(k)), s[i].entry)
         IN  HarFold(s, AfterEntry(r, i, s) + 1, k, AppendEntry(out, r))

\* if not files: the files of the default folder are taken
EffectiveFiles(files, folder) == IF files = <<>> THEN folder ELSE files

\* the value parse_har_files returns
parse_har_files(files, folder) == HarFold(EffectiveFiles(files, folder), 1, 0, <<>>)

\* The input of parse_log_files as one stream: [file |-> "ok"] starts the next
\* file, [file |-> "unreadable"] is a file whose reading or decoding raises, and
\* [line |-> raw] is the next line of the file started last.
IsLineItem(it) == "line" \in DOMAIN it

RECURSIVE LogFold(_, _, _, _)
LogFold(s, i, k, st) ==
    IF i > Len(s) THEN st
    ELSE IF s[i] = [file |-> "ok"] THEN LogFold(s, i + 1, k + 1, ScannerReset(st.out))
    ELSE IF IsFileItem(s[i]) THEN LogFold(s, i + 1, k + 1, st)
    ELSE LogFold(s, i + 1, k, ScanLine(st, LogFileNames[k], s[i].line))

\* the value parse_log_files returns
parse_log_files(files, folder) ==
    LogFold(EffectiveFiles(files, folder), 1, 0, ScannerReset(<<>>)).out

-----------------------------------------------------------------------------
(* DataHandler.process_files and load_parsed_data *)

MaxBatches == 3

BatchHarInputs ==
    { <<>>,
      << [file |-> "invalid"] >>,
      << [file |-> "ok"], [entry |-> NoTimings] >>,
      << [file |-> "ok"], [entry |-> Good1] >>,
      << [file |-> "nokeys"], [file |-> "ok"], [entry |-> Good2], [entry |-> NoRequest] >> }

HarFolders == { <<>>, << [file |-> "ok"], [entry |-> Good2] >> }

BatchLogInputs ==
    { <<>>,
      << [file |-> "unreadable"] >>,
      << [file |-> "ok"], [line |-> LnStartA], [line |-> LnStep] >>,
      << [file |-> "ok"], [line |-> LnStartA], [line |-> LnStep], [line |-> LnEnd] >>,
      << [file |-> "unreadable"], [file |-> "ok"], [line |-> LnStartB],
         [line |-> LnTraceback], [line |-> LnExc], [line |-> LnEnd] >> }

LogFolders == { <<>>, << [file |-> "ok"], [line |-> LnStartB], [line |-> LnEnd] >> }

BatchInit ==
    /\ batch_no = 0
    /\ har_returned = <<>>
    /\ log_returned = <<>>
    /\ batch_result = [har |-> [processed |-> 0, skipped |-> 0, errors |-> 0],
                       log |-> [processed |-> 0, errors |-> 0]]
    /\ loaded = << <<>>, <<>> >>

\* json.load of a file that exists, [] otherwise
ReadBack(file) == IF file = NoFile THEN <<>> ELSE file.content

\* the value load_parsed_data returns
load_parsed_data == << ReadBack(parsed_har), ReadBack(parsed_logs) >>

\* process_files(har_files, log_files): both normalizers run, each saves as it
\* does, and the records returned are counted
ProcessFiles(har_files, har_folder, log_files, log_folder) ==
    /\ batch_no < MaxBatches
    /\ batch_no' = batch_no + 1
    /\ LET har_entries == parse_har_files(har_files, har_folder)
           log_entries == parse_log_files(log_files, log_folder)
       IN  /\ parsed_har' = SavedHar(har_entries, parsed_har)
           /\ parsed_logs' = SavedLogs(log_entries, parsed_logs)
           /\ har_returned' = har_entries
           /\ log_returned' = log_entries
           /\ batch_result' =
                [har |-> [processed |-> Len(har_entries), skipped |-> 0, errors |-> 0],
                 log |-> [processed |-> Len(log_entries), errors |-> 0]]
    /\ UNCHANGED <<loaded, log_rest, har_rest, det_vars, flow_vars, json_vars>>

LoadParsedData ==
    /\ loaded' = load_parsed_data
    /\ UNCHANGED <<batch_no, har_returned, log_returned, batch_result,
                   log_vars, har_vars, det_vars, flow_vars, json_vars>>

-----------------------------------------------------------------------------
(* FailurePatternDetector *)

MaxDetLogs == 2
MaxDetHars == 2

Range(f) == { f[i] : i \in DOMAIN f }

\* list(set(...)): the elements of S once each, in an order the code does not fix
Orderings(S) ==
    { q \in [1..Cardinality(S) -> S] :
        \A i, j \in 1..Cardinality(S) : i # j => q[i] # q[j] }

\* sep.join(parts)
RECURSIVE Join(_, _)
Join(parts, sep) ==
    IF parts = <<>> THEN <<>>
    ELSE IF Len(parts) = 1 THEN parts[1]
    ELSE parts[1] \o sep \o Join(Tail(parts), sep)

\* rec.get(k), for a key whose value is text
KeyOf(rec, k) == IF k \in DOMAIN rec THEN Str(rec[k]) ELSE None

\* rec.get('error_message')
MsgOf(rec) == Get(rec, "error_message", None)

\* if f['error_message']
Truthy(m) == m # None /\ m # Str(<<>>)

AuthIndicators ==
    { <<"cookies", " ", "required">>, <<"Valid", " ", "cookies">>,
      <<"Cookies", " ", "sanitized">>, <<"session">> }

VerificationIndicators ==
    { <<"Card", " ", "is not reflected">>, <<"card", " ", "is not reflected">>,
      <<"Card", " ", "verification failed">>, <<"Update", " ", "card", " ", "error">> }

\* [log for log in log_data if log.get('status') == 'failed']
FailedLogs(log_data) ==
    SelectSeq(log_data, LAMBDA log : Get(log, "status", "") = "failed")

\* self.har_data = har_data
RestrictHarNot(har_data, logs) == har_data

\* [har for har in har_data if har.get('file_id') in {log.get('file_id') for log in logs}]
RestrictHar(har_data, logs) ==
    SelectSeq(har_data,
              LAMBDA har : KeyOf(har, "file_id") \in
                               { KeyOf(logs[i], "file_id") : i \in 1..Len(logs) })

\* any(indicator in ' '.join(steps) for indicator in indicators)
Qualifies(log, indicators) ==
    \E ind \in indicators : Contains(Join(Get(log, "steps", <<>>), <<WS>>), ind)

\* every error_message of the contributors, as often as it comes, null or not
ErrorMessagesKept(fs) == { [ i \in 1..Len(fs) |-> MsgOf(fs[i]) ] }

\* list(set(f['error_message'] for f in fs if f['error_message'])): the lists it
\* can give, one for each order of the set
ErrorMessages(fs) ==
    Orderings({ MsgOf(fs[i]) : i \in { j \in 1..Len(fs) : Truthy(MsgOf(fs[j])) } })

\* the rule with affected_files as a set, as the API rule has them
LogRulePatternsDistinctFiles(logs, indicators, type, description, recommendation) ==
    LET q == SelectSeq(logs, LAMBDA log : Qualifies(log, indicators)) IN
    IF q = <<>> THEN { <<>> }
    ELSE { << [ type           |-> type,
                description    |-> description,
                severity       |-> "high",
                frequency      |-> Len(q),
                affected_files |-> a,
                error_messages |-> m,
                recommendation |-> recommendation ] >> :
             a \in Orderings({ KeyOf(q[i], "file_id") : i \in 1..Len(q) }),
             m \in ErrorMessages(q) }

\* The lists of patterns a rule over the logs can return (one list for each
\* order list(set(...)) can give): no pattern, or one over the qualifying logs.
LogRulePatterns(logs, indicators, type, description, recommendation) ==
    LET q == SelectSeq(logs, LAMBDA log : Qualifies(log, indicators)) IN
    IF q = <<>> THEN { <<>> }
    ELSE { << [ type           |-> type,
                description    |-> description,
                severity       |-> "high",
                frequency      |-> Len(q),
                affected_files |-> [ i \in 1..Len(q) |-> KeyOf(q[i], "file_id") ],
                error_messages |-> m,
                recommendation |-> recommendation ] >> :
             m \in ErrorMessages(q) }

detect_auth_failures(logs) ==
    LogRulePatterns(logs, AuthIndicators, "cookie_session_failure",
                    "Authentication failures due to cookie/session issues",
                    "Review session management and cookie handling process")

detect_verification_failures(logs) ==
    LogRulePatterns(logs, VerificationIndicators, "card_verification_failure",
                    "Card verification or reflection failures",
                    "Implement robust card verification checks and retry mechanism")

\* entry.get('status_code', 0)
StatusOrZero(entry) == IF "status_code" \in DOMAIN entry THEN entry.status_code ELSE Num(0)

\* _detect_api_failures raises: TypeError when a status_code that is there is not
\* a number (None >= 400), KeyError when an entry of 400 or more has no file_id
\* or no url
ApiRaises(hars) ==
    \E i \in 1..Len(hars) :
        IF ~IsNumber(StatusOrZero(hars[i])) THEN TRUE
        ELSE /\ StatusOrZero(hars[i]).int >= 400
             /\ ~({"file_id", "url"} \subseteq DOMAIN hars[i])

\* every entry of 400 or more counted as a 404
ApiFailuresLoose(hars, code) ==
    SelectSeq(hars, LAMBDA e : StatusOrZero(e).int >= 400
                               /\ (code = 404 \/ StatusOrZero(e).int = code))

\* api_failures[code]
ApiFailures(hars, code) ==
    SelectSeq(hars, LAMBDA e : StatusOrZero(e).int >= 400 /\ StatusOrZero(e).int = code)

\* the patterns for one status code: none, or one in each order of the two sets
ApiCodePatterns(hars, code, type, description, recommendation) ==
    LET fs == ApiFailures(hars, code) IN
    IF fs = <<>> THEN { <<>> }
    ELSE { << [ type           |-> type,
                description    |-> description,
                severity       |-> "high",
                frequency      |-> Len(fs),
                affected_files |-> a,
                error_messages |-> m,
                recommendation |-> recommendation ] >> :
             a \in Orderings({ Str(fs[i].file_id) : i \in 1..Len(fs) }),
             m \in ErrorMessages(fs) }

detect_api_failures(hars) ==
    { p \o q :
        p \in ApiCodePatterns(hars, 404, "endpoint_not_found",
                              "API endpoints returning 404 errors",
                              "Verify API endpoint URLs and routing configuration"),
        q \in ApiCodePatterns(hars, 500, "server_error",
                              "Internal server errors in API responses",
                              "Investigate server-side error logs and exception handling") }

\* total_failures as the number of patterns found
SummariesCountingPatterns(hars, logs) ==
    { [ total_failures       |-> Len(a) + Len(b) + Len(c),
        pattern_distribution |-> [authentication |-> Len(a), api |-> Len(b),
                                  verification |-> Len(c)],
        patterns             |-> [authentication |-> a, api |-> b, verification |-> c] ] :
        a \in detect_auth_failures(logs),
        b \in detect_api_failures(hars),
        c \in detect_verification_failures(logs) }

\* the summaries generate_summary can return
Summaries(hars, logs) ==
    { [ total_failures       |-> Len(logs),
        pattern_distribution |-> [authentication |-> Len(a), api |-> Len(b),
                                  verification |-> Len(c)],
        patterns             |-> [authentication |-> a, api |-> b, verification |-> c] ] :
        a \in detect_auth_failures(logs),
        b \in detect_api_failures(hars),
        c \in detect_verification_failures(logs) }

(* Inputs of the detector: records in the canonical form *)

LogRec(fid, status, steps, msg) ==
    [ file_id |-> fid, service |-> SvcA, task_url |-> None, steps |-> steps,
      status |-> status, error_message |-> msg, error_details |-> None ]

HarRec(fid, response) ==
    har_entry(fid, [ request  |-> [url |-> UrlItems, method |-> "GET"],
                     response |-> response,
                     timings  |-> [total |-> Num(35)] ])

DetLogPool ==
    { LogRec(<<"t1">>, "failed", << <<"Valid", " ", "cookies", " ", "found">> >>, Str(LnExc)),
      LogRec(<<"t2">>, "failed", << <<"Card", " ", "verification failed">> >>, Str(LnExc)),
      LogRec(<<"t1">>, "success", << <<"session", " ", "opened">> >>, None),
      LogRec(<<"t3">>, "failed", << <<"Valid">>, <<"cookies", " ", "ok">> >>, Str(LnCommons)),
      LogRec(<<"t2">>, "failed", << <<"step one">> >>, Str(LnCommons)),
      [file_id |-> <<"t2">>, status |-> "failed",
       steps |-> << <<"session", " ", "expired">> >>],
      [status |-> "failed"] }

DetHarPool ==
    { HarRec(<<"t1">>, [status |-> Num(404), statusText |-> "Not Found"]),
      HarRec(<<"t2">>, [status |-> Num(404), statusText |-> "Not Found"]),
      HarRec(<<"t1">>, [status |-> Num(500), statusText |-> "Server Error"]),
      HarRec(<<"t9">>, [status |-> Num(404), statusText |-> "Gone"]),
      HarRec(<<"t1">>, [statusText |-> ""]),
      HarRec(<<"t3">>, [status |-> Num(400), statusText |-> "Bad Request"]),
      HarRec(<<"t1">>, [status |-> Num(200), statusText |-> "OK"]),
      [status_code |-> Num(404)] }

SeqsUpTo(S, n) == UNION { [1..k -> S] : k \in 0..n }

DetInit ==
    /\ det_har \in SeqsUpTo(DetHarPool, MaxDetHars)
    /\ det_log \in SeqsUpTo(DetLogPool, MaxDetLogs)
    /\ det_pc = "new"
    /\ self_har_data = <<>>
    /\ self_log_data = <<>>
    /\ summary = None

DetIdle ==
    /\ det_har = <<>>
    /\ det_log = <<>>
    /\ det_pc = "new"
    /\ self_har_data = <<>>
    /\ self_log_data = <<>>
    /\ summary = None

\* FailurePatternDetector(har_data, log_data)
DetConstruct ==
    /\ det_pc = "new"
    /\ self_log_data' = FailedLogs(det_log)
    /\ self_har_data' = RestrictHar(det_har, FailedLogs(det_log))
    /\ det_pc' = "built"
    /\ UNCHANGED <<det_har, det_log, summary, log_vars, har_vars, batch_vars, flow_vars, json_vars>>

\* generate_summary() returns
DetSummary ==
    /\ det_pc = "built"
    /\ ~ApiRaises(self_har_data)
    /\ summary' \in Summaries(self_har_data, self_log_data)
    /\ det_pc' = "done"
    /\ UNCHANGED <<det_har, det_log, self_har_data, self_log_data,
                   log_vars, har_vars, batch_vars, flow_vars, json_vars>>

\* generate_summary() raises out of _detect_api_failures
DetRaise ==
    /\ det_pc = "built"
    /\ ApiRaises(self_har_data)
    /\ det_pc' = "raised"
    /\ UNCHANGED <<det_har, det_log, self_har_data, self_log_data, summary,
                   log_vars, har_vars, batch_vars, flow_vars, json_vars>>

-----------------------------------------------------------------------------
(* get_route_sequence and analyze_payment_flows *)

MaxFlowHars == 3
MaxFlowLogs == 2

\* urlparse(url).path, for a URL written scheme, host, path
PathOf(url) == SubSeq(url, 3, Len(url))

\* [p for p in path.strip('/').split('/') if p]
PathParts(path) == SelectSeq(path, LAMBDA t : t # "/" /\ t # "")

get_route_sequence(url) ==
    LET path_parts == PathParts(PathOf(url)) IN
    [ base      |-> IF path_parts # <<>> THEN path_parts[1] ELSE "root",
      full_path |-> Join([ i \in 1..Len(path_parts) |-> <<path_parts[i]>> ], <<"/">>),
      depth     |-> Len(path_parts) ]

\* entries.sort(key=lambda x: x.get('step_number', 0)): a stable sort
StepNumber(entry) == Get(entry, "step_number", 0)

RECURSIVE InsertByStep(_, _)
InsertByStep(sorted, e) ==
    IF sorted = <<>> THEN <<e>>
    ELSE IF StepNumber(sorted[Len(sorted)]) <= StepNumber(e) THEN Append(sorted, e)
    ELSE Append(InsertByStep(SubSeq(sorted, 1, Len(sorted) - 1), e), sorted[Len(sorted)])

RECURSIVE SortByStep(_)
SortByStep(entries) ==
    IF entries = <<>> THEN <<>>
    ELSE InsertByStep(SortByStep(SubSeq(entries, 1, Len(entries) - 1)),
                      entries[Len(entries)])

\* the entries of every file, sorted
HarOfAnyFile(har_data, file_id) == SortByStep(har_data)

\* har_by_file.get(log_file_id, []), sorted
HarOfFile(har_data, file_id) ==
    SortByStep(SelectSeq(har_data, LAMBDA e : e.file_id = file_id))

\* entry.get('base_route', 'unknown')
RouteOf(entry) == Get(entry, "base_route", "unknown")

\* entry.get('full_path', 'unknown')
FullPathOf(entry) == Get(entry, "full_path", <<"unknown">>)

\* str(entry.get('status_code', 0))
StatusRepr(entry) ==
    LET st == StatusOrZero(entry) IN
    IF st = None THEN "None" ELSE IF st = Num(0) THEN "0" ELSE CodeText(st.int)

RECURSIVE Sum(_)
Sum(ns) == IF ns = <<>> THEN 0 ELSE ns[1] + Sum(Tail(ns))

Arrow == <<" -> ">>

\* status, 'unknown' unless it is success, failed or unknown
FlowStatus(log_entry) ==
    LET status == Get(log_entry, "status", "unknown") IN
    IF status \in {"success", "failed", "unknown"} THEN status ELSE "unknown"

\* the flow_analysis record of one log entry
flow_analysis(har_data, log_entry) ==
    LET har_entries == HarOfFile(har_data, log_entry.file_id)
        n == Len(har_entries)
    IN  [ file_id             |-> log_entry.file_id,
          status              |-> FlowStatus(log_entry),
          error_message       |-> MsgOf(log_entry),
          api_calls           |-> n,
          total_response_size |-> Sum([ i \in 1..n |-> Get(har_entries[i], "response_size", 0) ]),
          steps_completed     |-> Len(Get(log_entry, "steps", <<>>)),
          flow_sequence       |-> Join([ i \in 1..n |-> <<RouteOf(har_entries[i])>> ], Arrow),
          detailed_flow       |-> Join([ i \in 1..n |-> FullPathOf(har_entries[i]) ], Arrow),
          flow_status         |-> Join([ i \in 1..n |->
                                           <<RouteOf(har_entries[i]), "(",
                                             StatusRepr(har_entries[i]), ")">> ], Arrow) ]

FlowColumns ==
    <<"file_id", "status", "error_message", "api_calls", "total_response_size",
      "steps_completed", "flow_sequence", "detailed_flow", "flow_status">>

\* pd.DataFrame(results), with the status column added to a frame without one
DataFrame(rows) ==
    [ columns |-> IF rows = <<>> THEN <<"status">> ELSE FlowColumns, rows |-> rows ]

\* analyze_payment_flows raises KeyError: a record without file_id
FlowRaises(har_data, log_data) ==
    \/ \E i \in 1..Len(har_data) : "file_id" \notin DOMAIN har_data[i]
    \/ \E i \in 1..Len(log_data) : "file_id" \notin DOMAIN log_data[i]

(* Inputs of the correlator *)

FlowHar(fid, url, response) ==
    har_entry(fid, [ request  |-> [url |-> url, method |-> "GET"],
                     response |-> response,
                     timings  |-> [total |-> Num(35)] ])

FlowHarPool ==
    { FlowHar(<<"t1">>, UrlItems, [status |-> Num(200), bodySize |-> 10]),
      FlowHar(<<"t1">>, UrlLogin, [status |-> Num(404), bodySize |-> 5]),
      FlowHar(<<"t2">>, UrlRoot, [status |-> Num(302), redirectURL |-> "/x"]),
      FlowHar(<<"t2">>, UrlItems, [bodySize |-> 3]),
      [ file_id |-> <<"t1">>, status_code |-> Num(500), response_size |-> 7,
        step_number |-> -1, base_route |-> "pay", full_path |-> <<"pay", "/", "card">> ],
      [ url |-> UrlRoot ] }

FlowLogPool ==
    { LogRec(<<"t1">>, "failed", << <<"step one">> >>, Str(LnExc)),
      LogRec(<<"t2">>, "success", << <<"step one">>, <<"step two">> >>, None),
      LogRec(<<"t3">>, "success", <<>>, None),
      [ file_id |-> <<"t1">>, status |-> "running" ],
      [ status |-> "failed" ] }

FlowInit ==
    /\ flow_har \in SeqsUpTo(FlowHarPool, MaxFlowHars)
    /\ flow_log \in SeqsUpTo(FlowLogPool, MaxFlowLogs)
    /\ flow_pc = "new"
    /\ flow_df = None

FlowIdle ==
    /\ flow_har = <<>>
    /\ flow_log = <<>>
    /\ flow_pc = "new"
    /\ flow_df = None

\* analyze_payment_flows(har_data, log_data) returns
AnalyzeFlows ==
    /\ flow_pc = "new"
    /\ ~FlowRaises(flow_har, flow_log)
    /\ flow_df' = DataFrame([ i \in 1..Len(flow_log) |-> flow_analysis(flow_har, flow_log[i]) ])
    /\ flow_pc' = "done"
    /\ UNCHANGED <<flow_har, flow_log, log_vars, har_vars, batch_vars, det_vars,
                   json_vars>>

\* analyze_payment_flows(har_data, log_data) raises
AnalyzeFlowsRaise ==
    /\ flow_pc = "new"
    /\ FlowRaises(flow_har, flow_log)
    /\ flow_pc' = "raised"
    /\ UNCHANGED <<flow_har, flow_log, flow_df, log_vars, har_vars, batch_vars, det_vars,
                   json_vars>>

-----------------------------------------------------------------------------
(* A JSON log file: convert_json_to_traditional, then the scan of its text *)

MaxJsonLogs == 5

NL == "\n"
EmptyDict == [k \in {} |-> k]

\* text.split("\n")
RECURSIVE SplitNl(_)
SplitNl(text) ==
    IF ~Contains(text, <<NL>>) THEN <<text>>
    ELSE LET i == FirstIndex(text, <<NL>>)
         IN  <<SubSeq(text, 1, i)>> \o SplitNl(SubSeq(text, i + 2, Len(text)))

\* "\n".join(lines)
RECURSIVE JoinNl(_)
JoinNl(lines) ==
    IF lines = <<>> THEN <<>>
    ELSE IF Len(lines) = 1 THEN lines[1]
    ELSE lines[1] \o <<NL>> \o JoinNl(Tail(lines))

\* content.splitlines(): the pieces between the line ends; what follows the last
\* line end is a line only if it is not empty
SplitLines(text) ==
    LET pieces == SplitNl(text) IN
    IF pieces[Len(pieces)] = <<>> THEN SubSeq(pieces, 1, Len(pieces) - 1) ELSE pieces

\* all('timestamp' in log for log in json_logs)
HasTimestamps(logs) == \A i \in 1..Len(logs) : "timestamp" \in DOMAIN logs[i]

\* sorted(json_logs, key=lambda x: x['timestamp']): a stable sort
RECURSIVE InsertByTimestamp(_, _)
InsertByTimestamp(sorted, e) ==
    IF sorted = <<>> THEN <<e>>
    ELSE IF sorted[Len(sorted)].timestamp <= e.timestamp THEN Append(sorted, e)
    ELSE Append(InsertByTimestamp(SubSeq(sorted, 1, Len(sorted) - 1), e),
                sorted[Len(sorted)])

RECURSIVE SortByTimestamp(_)
SortByTimestamp(logs) ==
    IF logs = <<>> THEN <<>>
    ELSE InsertByTimestamp(SortByTimestamp(SubSeq(logs, 1, Len(logs) - 1)),
                           logs[Len(logs)])

\* the records in the order the for-log loop takes them
SortedLogs(logs) == IF HasTimestamps(logs) THEN SortByTimestamp(logs) ELSE logs

\* log.get("jsonPayload", {}) and .get("message", "") of it
PayloadOf(log) == Get(log, "jsonPayload", EmptyDict)
MessageOf(log) == Get(PayloadOf(log), "message", <<>>)

SyntheticTraceback == <<"Traceback", " ", "(most recent call last):">>

\* The body of the for-log loop on c = [svc, lines]: current_service and
\* traditional_lines after the record log.
ConvertRecord(c, log) ==
    LET payload == PayloadOf(log)
        message == MessageOf(log)
    IN  IF Contains(message, StartMarker)
        THEN [svc |-> Str(ServiceOf(message)), lines |-> Append(c.lines, message)]
        ELSE IF Contains(message, TaskUrlMarker)
        THEN [c EXCEPT !.lines = Append(@, message)]
        ELSE IF "error" \in DOMAIN payload
        THEN [c EXCEPT !.lines =
                 (IF "stacktrace" \in DOMAIN payload
                  THEN (@ \o <<SyntheticTraceback>>) \o SplitNl(payload.stacktrace)
                  ELSE @) \o <<payload.error>>]
        ELSE IF message # <<>> /\ ~StartsWith(message, FourEq)
        THEN [c EXCEPT !.lines = Append(@, message)]
        ELSE IF Contains(message, EndMarker) /\ Truthy(c.svc)
        THEN [svc |-> None, lines |-> Append(c.lines, message)]
        ELSE c

\* the for-line loop of parse_log_files over the lines of one file named name
RECURSIVE ScanFrom(_, _, _, _)
ScanFrom(st, name, lines, i) ==
    IF i > Len(lines) THEN st
    ELSE ScanFrom(ScanLine(st, name, lines[i]), name, lines, i + 1)

ScanAll(name, lines) == ScanFrom(ScannerReset(<<>>), name, lines, 1).out

\* the records of the JSON files
RStart == [timestamp |-> 1, jsonPayload |-> [message |-> LnStartA]]
RTraceback == [timestamp |-> 2, jsonPayload |-> [message |-> LnTraceback]]
RRule == [timestamp |-> 3,
          jsonPayload |-> [message |-> <<"====", " ", "attempt 2", " ", "====">>]]
RExc == [timestamp |-> 4, jsonPayload |-> [message |-> LnExc]]
REnd == [timestamp |-> 5, jsonPayload |-> [message |-> LnEnd]]
RStep == [jsonPayload |-> [message |-> <<"step one">>]]
RErr == [jsonPayload |-> [error |-> LnExc]]
RErrStack ==
    [timestamp |-> 3,
     jsonPayload |-> [message |-> <<"failed">>, error |-> LnExc,
                      stacktrace |-> <<"File", " ", "main.py", NL, "line 2">>]]

JsonPool == { RStart, RTraceback, RRule, RExc, REnd, RStep, RErr, RErrStack }

JsonFileName == <<"t1", ".", "json">>

JsonInit ==
    /\ json_logs \in SeqsUpTo(JsonPool, MaxJsonLogs)
    /\ json_pc = "new"
    /\ json_pos = 0
    /\ current_service = None
    /\ traditional_lines = <<>>
    /\ json_results = <<>>

JsonIdle ==
    /\ json_logs = <<>>
    /\ json_pc = "new"
    /\ json_pos = 0
    /\ current_service = None
    /\ traditional_lines = <<>>
    /\ json_results = <<>>

\* json.loads gave a list: the conversion begins, the records are sorted by
\* timestamp if each has one
JsonSort ==
    /\ json_pc = "new"
    /\ json_logs' = SortedLogs(json_logs)
    /\ json_pc' = "records"
    /\ UNCHANGED <<json_pos, current_service, traditional_lines, json_results,
                   log_vars, har_vars, batch_vars, det_vars, flow_vars>>

\* one iteration of for log in json_logs
JsonRecord ==
    /\ json_pc = "records"
    /\ json_pos < Len(json_logs)
    /\ json_pos' = json_pos + 1
    /\ LET c == ConvertRecord([svc |-> current_service, lines |-> traditional_lines],
                              json_logs[json_pos + 1])
       IN  /\ current_service' = c.svc
           /\ traditional_lines' = c.lines
    /\ UNCHANGED <<json_logs, json_pc, json_results,
                   log_vars, har_vars, batch_vars, det_vars, flow_vars>>

\* the lines are joined into the content of the file, which is split into lines
\* and scanned
JsonScan ==
    /\ json_pc = "records"
    /\ json_pos = Len(json_logs)
    /\ json_results' = ScanAll(JsonFileName, SplitLines(JoinNl(traditional_lines)))
    /\ json_pc' = "done"
    /\ UNCHANGED <<json_logs, json_pos, current_service, traditional_lines,
                   log_vars, har_vars, batch_vars, det_vars, flow_vars>>

-----------------------------------------------------------------------------
(* Specifications *)

\* parse_log_files on a list of files read line by line
Init == LogInit /\ HarIdle /\ BatchInit /\ DetIdle /\ FlowIdle /\ JsonIdle

Next ==
    \/ OpenFile /\ UNCHANGED <<har_vars, batch_vars, det_vars, flow_vars, json_vars>>
    \/ SkipFile /\ UNCHANGED <<har_vars, batch_vars, det_vars, flow_vars, json_vars>>
    \/ (\E raw \in LogLines : ReadLine(raw))
          /\ UNCHANGED <<har_vars, batch_vars, det_vars, flow_vars, json_vars>>
    \/ EndOfFile /\ UNCHANGED <<har_vars, batch_vars, det_vars, flow_vars, json_vars>>
    \/ SaveLogs /\ UNCHANGED <<har_vars, batch_vars, det_vars, flow_vars, json_vars>>

Spec == Init /\ [][Next]_vars

\* parse_log_files on files whose exception lines may quote a Task URL
NextScan ==
    \/ OpenFile /\ UNCHANGED <<har_vars, batch_vars, det_vars, flow_vars, json_vars>>
    \/ SkipFile /\ UNCHANGED <<har_vars, batch_vars, det_vars, flow_vars, json_vars>>
    \/ (\E raw \in ScanLines : ReadLine(raw))
          /\ UNCHANGED <<har_vars, batch_vars, det_vars, flow_vars, json_vars>>
    \/ EndOfFile /\ UNCHANGED <<har_vars, batch_vars, det_vars, flow_vars, json_vars>>
    \/ SaveLogs /\ UNCHANGED <<har_vars, batch_vars, det_vars, flow_vars, json_vars>>

SpecScan == Init /\ [][NextScan]_vars

\* parse_har_files on a list of files
InitHar == HarInit /\ LogInit /\ BatchInit /\ DetIdle /\ FlowIdle /\ JsonIdle

NextHar ==
    \/ HarOpenFile /\ UNCHANGED <<log_vars, batch_vars, det_vars, flow_vars, json_vars>>
    \/ HarSkipFile /\ UNCHANGED <<log_vars, batch_vars, det_vars, flow_vars, json_vars>>
    \/ HarReadEntry /\ UNCHANGED <<log_vars, batch_vars, det_vars, flow_vars, json_vars>>
    \/ HarSave /\ UNCHANGED <<log_vars, batch_vars, det_vars, flow_vars, json_vars>>
    \/ HarRunAgain /\ UNCHANGED <<log_vars, batch_vars, det_vars, flow_vars, json_vars>>

SpecHar == InitHar /\ [][NextHar]_vars

\* batches of process_files, and load_parsed_data, on the persisted files
InitBatch == BatchInit /\ LogInit /\ HarIdle /\ DetIdle /\ FlowIdle /\ JsonIdle

NextBatch ==
    \/ \E hf \in BatchHarInputs, hd \in HarFolders,
          lf \in BatchLogInputs, ld \in LogFolders : ProcessFiles(hf, hd, lf, ld)
    \/ LoadParsedData

SpecBatch == InitBatch /\ [][NextBatch]_vars

\* the detector on canonical records
InitDet == DetInit /\ LogInit /\ HarIdle /\ BatchInit /\ FlowIdle /\ JsonIdle

NextDet ==
    \/ DetConstruct
    \/ DetSummary
    \/ DetRaise

SpecDet == InitDet /\ [][NextDet]_vars

\* the correlator on records read back
InitFlow == FlowInit /\ LogInit /\ HarIdle /\ BatchInit /\ DetIdle /\ JsonIdle

NextFlow ==
    \/ AnalyzeFlows
    \/ AnalyzeFlowsRaise

SpecFlow == InitFlow /\ [][NextFlow]_vars

\* parse_log_files on one JSON file
InitJson == JsonInit /\ LogInit /\ HarIdle /\ BatchInit /\ DetIdle /\ FlowIdle

NextJson ==
    \/ JsonSort
    \/ JsonRecord
    \/ JsonScan

SpecJson == InitJson /\ [][NextJson]_vars

-----------------------------------------------------------------------------
(* Claims about the log scanner *)

\* the five fields the round trip names, of output entry e
RoundTripFields(e) ==
    [service |-> e.service, task_url |-> e.task_url, steps |-> e.steps,
     status |-> e.status, error_message |-> e.error_message]

ShapeFields ==
    [service |-> shape.svc, task_url |-> Str(shape.url), steps |-> shape.steps,
     status |-> "failed", error_message |-> Str(shape.exc)]

\* C1: whenever the lines of the current file are exactly a start-marker line for
\* S, a 'Task URL: U' line, plain step lines, a 'Traceback' line, any trace lines,
\* one exception line E and an end-marker line, the file has yielded exactly one
\* LogEntry, with service S, task_url U, the steps in order, status failed and
\* error_message E.
C1_RoundTrip ==
    shape.ph = "end" =>
        /\ Len(results) = base + 1
        /\ RoundTripFields(results[base + 1]) = ShapeFields

\* The same round trip when no trace line holds a start marker or 'Task URL:'.
RoundTripQuietTrace ==
    (shape.ph = "end" /\ shape.quiet) =>
        /\ Len(results) = base + 1
        /\ RoundTripFields(results[base + 1]) = ShapeFields

RoundTripReached == shape.ph = "end" /\ shape.quiet /\ shape.steps # <<>>

\* C2: the output grows only when a line holding the end marker is read while a
\* run opened by a start-marker line of the same file is in progress; the entry
\* appended is that run's (its service is the start line's, its file the current
\* one); the end of a file, the next file and the save never add an entry.
C2_FinalizedOnlyByEndMarker ==
    [][ /\ (results' # results =>
                \E raw \in LogLines :
                    /\ ReadLine(raw)
                    /\ HasEndMarker(raw)
                    /\ open_line # NoLine
                    /\ Len(results') = Len(results) + 1
                    /\ SubSeq(results', 1, Len(results)) = results
                    /\ results'[Len(results')].service = ServiceOf(Strip(open_line))
                    /\ results'[Len(results')].file_id = FileId(filename))
      ]_vars

C2_Witness ==
    /\ pc = "done"
    /\ Len(results) = 1
    /\ current_entry # None

\* C18: the output of parse_log_files is, at every point, the concatenation in
\* input order of what each file read so far gives when it is normalized alone;
\* an entry or a traceback left open by a file changes nothing for the next.
C18_NoCrossFileState == results = alone.before \o alone.st.out

\* a first file ended with its entry open, and the second gave an entry
C18_Witness ==
    /\ pc = "done"
    /\ file_no = 2
    /\ alone.left_open
    /\ alone.before = <<>>
    /\ Len(results) = 1

\* C20: with an entry open and no traceback in progress, every line that holds
\* the end marker, wherever in the line, appends the open entry as it is to the
\* output and leaves no entry open.
C20_EndMarkerFinalizes ==
    [][ \A raw \in LogLines :
          (ReadLine(raw) /\ current_entry # None /\ ~in_traceback /\ HasEndMarker(raw)) =>
              /\ results' = Append(results, current_entry)
              /\ current_entry' = None
      ]_vars


\* C21: a line holding the end marker that is read while an entry is open and a
\* traceback is in progress leaves the output as it is, leaves the entry open
\* and the traceback in progress, and is appended to the trace buffer; no line
\* read during a traceback appends an entry to the output.
C21_EndMarkerSwallowed ==
    [][ \A raw \in LogLines :
          /\ (ReadLine(raw) /\ current_entry # None /\ in_traceback
                /\ HasEndMarker(raw)) =>
                /\ results' = results
                /\ current_entry' = current_entry
                /\ in_traceback'
                /\ error_trace' = Append(error_trace, Strip(raw))
          /\ (ReadLine(raw) /\ in_traceback) => results' = results
      ]_vars

\* an end-marker line is the last line of the trace buffer of an open entry
C21_Witness ==
    /\ current_entry # None
    /\ in_traceback
    /\ error_trace # <<>>
    /\ Contains(error_trace[Len(error_trace)], EndMarker)
    /\ results = <<>>

\* C22 (as claimed): every line read while a traceback is in progress is
\* appended to the trace buffer, and but for the end of the traceback nothing
\* else of the scanner changes.
C22_EveryTraceLineAppended ==
    [][ \A raw \in LogLines :
          (ReadLine(raw) /\ current_entry # None /\ in_traceback) =>
              /\ error_trace' = Append(error_trace, Strip(raw))
              /\ results' = results
              /\ ~IsTerminator(Strip(raw)) =>
                    (current_entry' = current_entry /\ in_traceback')
      ]_vars

\* C23 (as claimed): during a traceback, every line that starts with
\* 'commons.exceptions' or 'Exception' sets the error_message of the open entry
\* to that line and its status to "failed", computes error_details from the
\* whole trace buffer with that line last, and ends the traceback; no other line
\* ends it.
C23_TerminatorEndsTraceback ==
    [][ \A raw \in ScanLines :
          (ReadLine(raw) /\ current_entry # None /\ in_traceback) =>
              IF IsTerminator(Strip(raw))
              THEN /\ current_entry' # None
                   /\ current_entry'.error_message = Str(Strip(raw))
                   /\ current_entry'.status = "failed"
                   /\ current_entry'.error_details =
                          parse_error_trace(Append(error_trace, Strip(raw)))
                   /\ ~in_traceback'
              ELSE in_traceback'
      ]_vars

\* C24 (as claimed): once a traceback has given the open entry its
\* error_message, a later traceback of the same entry does not change it.
C24_FirstErrorMessageKept ==
    [][ \A raw \in LogLines :
          (ReadLine(raw) /\ ~HasStartMarker(raw) /\ current_entry # None
             /\ current_entry.error_message # None /\ current_entry' # None) =>
              current_entry'.error_message = current_entry.error_message
      ]_vars

\* C27: the steps of the open entry and of every entry put out are exactly, in
\* reading order, the lines read while that entry was open and no traceback was
\* in progress that are not empty, do not start with "====" and hold neither
\* 'Task URL:' nor 'Traceback'.
C27_StepsArePlainLines ==
    /\ current_entry # None => current_entry.steps = steps_due.open
    /\ Len(steps_due.out) = Len(results)
    /\ \A i \in 1..Len(results) : results[i].steps = steps_due.out[i]

\* an entry is out with two steps, one read before its traceback and one after
C27_Witness ==
    /\ Len(results) = 1
    /\ Len(results[1].steps) = 2
    /\ results[1].status = "failed"
    /\ Len(results[1].error_details.full_trace) >= 2

\* C28: every entry put out has status "success" or "failed"; it is "failed"
\* exactly when error_message is not null and exactly when error_details is not
\* null; the type of the error_details of a failed entry is its error_message
\* and is the last line of full_trace.
C28_FailedFieldsAgree ==
    \A i \in 1..Len(results) :
        LET e == results[i] IN
        /\ e.status \in {"success", "failed"}
        /\ (e.status = "failed") <=> (e.error_message # None)
        /\ (e.status = "failed") <=> (e.error_details # None)
        /\ e.status = "failed" =>
              /\ e.error_details.type = e.error_message
              /\ e.error_details.full_trace # <<>>
              /\ e.error_details.type =
                    Str(e.error_details.full_trace[Len(e.error_details.full_trace)])

\* a failed entry with its trace and a successful one are out
C28_Witness ==
    /\ \E i \in 1..Len(results) :
          /\ results[i].status = "failed"
          /\ Len(results[i].error_details.full_trace) >= 2
    /\ \E i \in 1..Len(results) : results[i].status = "success"

\* C29 (as claimed): a start-marker line opens a fresh entry with no traceback
\* in progress, whatever the scanner held before.
C29_StartMarkerOpensFresh ==
    [][ \A raw \in LogLines :
          (ReadLine(raw) /\ HasStartMarker(raw)) =>
              /\ current_entry' = NewEntry(filename, Strip(raw))
              /\ ~in_traceback'
              /\ results' = results
      ]_vars

-----------------------------------------------------------------------------
(* Claims about the HAR normalizer *)

\* the entry the run has just appended, and the source entry it was made from
JustRead == har_input[har_pos + 1].entry
JustAppended == har_results'[Len(har_results')]
AppendedOne == HarReadEntry /\ Len(har_results') = Len(har_results) + 1

\* C4: parsed_har.json changes only in the save of a run whose result is not
\* empty, and is then that result; the save of a run whose result is empty
\* leaves it as it was.
C4_HarSavedIffNonEmpty ==
    [][ /\ (parsed_har' # parsed_har => HarSave /\ har_results # <<>>)
        /\ (HarSave /\ har_results # <<>> => parsed_har' = FileOf(har_results))
        /\ (HarSave /\ har_results = <<>> => parsed_har' = parsed_har)
      ]_vars

C4_Witness ==
    /\ har_pc = "done"
    /\ Len(har_input) > 1
    /\ har_results = <<>>
    /\ parsed_har = FileOf(OldHar)

WellFormedEntry(e) ==
    /\ {"request", "response", "timings"} \subseteq DOMAIN e
    /\ LET hs == Get(e.request, "headers", <<>>) IN
           \A i \in 1..Len(hs) : {"name", "value"} \subseteq DOMAIN hs[i]
    /\ LET st == Get(e.response, "status", None) IN st = None \/ IsNumber(st)

\* <<file_id, url>> of each well-formed entry of each well-formed file of the
\* stream s from item i on, k files having started before
RECURSIVE ExpectedFrom(_, _, _)
ExpectedFrom(s, i, k) ==
    IF i > Len(s) THEN <<>>
    ELSE IF IsFileItem(s[i]) THEN ExpectedFrom(s, i + 1, k + 1)
    ELSE (IF WellFormedEntry(s[i].entry)
          THEN << << <<HarStems[k]>>, Get(s[i].entry.request, "url", <<>>) >> >>
          ELSE <<>>) \o ExpectedFrom(s, i + 1, k)

TagsOf(out) == [ i \in 1..Len(out) |-> <<out[i].file_id, out[i].url>> ]

\* C6: the result of a finished run is, in file order and then entry order, one
\* HarEntry for each well-formed entry of each well-formed file of the input;
\* malformed entries and malformed files leave no record and stop nothing.
C6_FailurePolicyAndOrder ==
    har_pc = "done" => TagsOf(har_results) = ExpectedFrom(har_input, 1, 0)

C6_Witness ==
    /\ har_pc = "done"
    /\ har_input = << [file |-> "invalid"], [file |-> "ok"], [entry |-> NoTimings],
                      [entry |-> Good1], [entry |-> Good2] >>
    /\ Len(har_results) = 2

\* sensitive, whatever the capitalisation
IsSensitiveName(name) == name.base \in { "cookie", "authorization", "x-csrf-token" }

\* e2 is e with other values for some sensitive headers
DiffersInSensitiveValuesOnly(e, e2) ==
    /\ WellFormedEntry(e2)
    /\ e2.response = e.response
    /\ e2.timings = e.timings
    /\ DOMAIN e2.request = DOMAIN e.request
    /\ \A k \in DOMAIN e.request \ {"headers"} : e2.request[k] = e.request[k]
    /\ LET hs == Get(e.request, "headers", <<>>)
           hs2 == Get(e2.request, "headers", <<>>)
       IN  /\ Len(hs) = Len(hs2)
           /\ \A i \in 1..Len(hs) :
                /\ hs2[i].name = hs[i].name
                /\ (~IsSensitiveName(hs[i].name) => hs2[i].value = hs[i].value)

\* the value of the last header named n
SourceValue(hs, n) ==
    hs[CHOOSE i \in 1..Len(hs) :
          hs[i].name = n /\ \A j \in (i + 1)..Len(hs) : hs[j].name # n].value

\* C7: in every HarEntry appended, each header of the source is there, a
\* sensitive one (cookie, authorization, x-csrf-token in any capitalisation) with
\* the value [REDACTED] and any other with its source value; and a source entry
\* that differs only in the values of sensitive headers gives the same HarEntry.
C7_Redaction ==
    [][ AppendedOne =>
          LET hs == Get(JustRead.request, "headers", <<>>)
              out == JustAppended.request_headers
          IN  /\ DOMAIN out = { hs[i].name : i \in 1..Len(hs) }
              /\ \A n \in DOMAIN out :
                    out[n] = IF IsSensitiveName(n) THEN Redacted
                             ELSE SourceValue(hs, n)
              /\ \A e2 \in RichPool :
                    DiffersInSensitiveValuesOnly(JustRead, e2) =>
                        har_entry(FileId(har_name), e2) = JustAppended
      ]_vars

C7_Witness ==
    \E i \in 1..Len(har_results) :
        LET out == har_results[i].request_headers IN
        /\ DOMAIN out = { HeaderName("cookie", "UPPER"), HeaderName("set-cookie", "lower"),
                          HeaderName("accept", "lower") }
        /\ out[HeaderName("cookie", "UPPER")] = Redacted
        /\ out[HeaderName("set-cookie", "lower")] = "x=1"

\* the error_message the derivation rule gives for a response
ClaimedErrorMessage(response) ==
    LET code == Get(response, "status", None) IN
    IF code # None /\ code.int >= 400
    THEN Str(HttpMessage(code.int,
                         IF Get(response, "statusText", "") = "" THEN "Error"
                         ELSE response.statusText))
    ELSE IF code = Num(302)
    THEN Str(RedirectMessage(IF Get(response, "redirectURL", "") = "" THEN "unknown"
                             ELSE response.redirectURL))
    ELSE None

\* C8: every HarEntry appended has the error_message of the rule: 'HTTP {code}:
\* {statusText}' for a status of 400 or more ('Error' for an absent or empty
\* statusText), 'Redirect to: {redirectURL}' for 302 ('unknown' for an absent or
\* empty redirectURL), null for any other status.
C8_ErrorMessage ==
    [][ AppendedOne => JustAppended.error_message = ClaimedErrorMessage(JustRead.response)
      ]_vars

-----------------------------------------------------------------------------
(* Claims about the batches *)

\* C3: after any number of batches, what load_parsed_data reads back is the HAR
\* records and the log records the most recent batch returned.
C3_PersistedIsLatestBatch ==
    batch_no > 0 => load_parsed_data = <<har_returned, log_returned>>

\* C5: after every run of parse_log_files, parsed_logs.json holds the sequence
\* the run returned, also an empty one and also when files were skipped.
C5_LogsAlwaysSaved ==
    batch_no > 0 => parsed_logs = FileOf(log_returned)

\* a run returning nothing has overwritten log records that were read back before
C5_Witness ==
    /\ batch_no > 1
    /\ loaded[2] # <<>>
    /\ log_returned = <<>>
    /\ parsed_logs = FileOf(<<>>)

\* the HAR normalizer skips something of the stream s: a file it cannot read or
\* that has no entries to give, or an entry whose conversion raises
HarSkipsIn(s) ==
    \E i \in 1..Len(s) :
        \/ IsFileItem(s[i]) /\ s[i].file # "ok"
        \/ IsEntryItem(s[i]) /\ har_entry(<<>>, s[i].entry) = Skipped

\* the log normalizer skips a file of the stream s
LogSkipsIn(s) == \E i \in 1..Len(s) : IsFileItem(s[i]) /\ s[i].file # "ok"

\* C30 (as claimed): the result of process_files counts the records produced,
\* and whenever a normalizer skipped a malformed file or entry in the batch the
\* 'skipped' or 'errors' counter of that normalizer is greater than 0.
C30_SkipsAreCounted ==
    [][ \A hf \in BatchHarInputs, hd \in HarFolders,
           lf \in BatchLogInputs, ld \in LogFolders :
          ProcessFiles(hf, hd, lf, ld) =>
              /\ batch_result'.har.processed = Len(har_returned')
              /\ batch_result'.log.processed = Len(log_returned')
              /\ HarSkipsIn(EffectiveFiles(hf, hd)) =>
                    (batch_result'.har.skipped > 0 \/ batch_result'.har.errors > 0)
              /\ LogSkipsIn(EffectiveFiles(lf, ld)) => batch_result'.log.errors > 0
      ]_vars

-----------------------------------------------------------------------------
(* Claims about the detector *)

\* the logs given to the detector whose status is failed, and their file ids
FailedIndices == { i \in 1..Len(det_log) : Get(det_log[i], "status", "") = "failed" }
FailedIds == { KeyOf(det_log[i], "file_id") : i \in FailedIndices }

\* the HAR records given to the detector, of a failed log's file, with this status
EligibleHars(code) ==
    { i \in 1..Len(det_har) :
        /\ KeyOf(det_har[i], "file_id") \in FailedIds
        /\ StatusOrZero(det_har[i]) = Num(code) }

\* the failed logs given to the detector that the rule of this type picks
PickedLogs(type) ==
    { i \in FailedIndices :
        Qualifies(det_log[i], IF type = "cookie_session_failure" THEN AuthIndicators
                              ELSE VerificationIndicators) }

\* C9: in a summary returned, every API pattern counts and lists only HAR records
\* whose file_id is that of a failed log, every log pattern counts and lists only
\* failed logs, and total_failures is the number of failed logs.
C9_DetectorRestriction ==
    det_pc = "done" =>
        /\ summary.total_failures = Cardinality(FailedIndices)
        /\ \A p \in Range(summary.patterns.api) :
              LET E == EligibleHars(IF p.type = "endpoint_not_found" THEN 404 ELSE 500) IN
              /\ p.frequency = Cardinality(E)
              /\ Range(p.affected_files) = { KeyOf(det_har[i], "file_id") : i \in E }
              /\ Range(p.error_messages) \subseteq { MsgOf(det_har[i]) : i \in E }
        /\ \A p \in Range(summary.patterns.authentication)
                        \cup Range(summary.patterns.verification) :
              /\ p.frequency = Cardinality(PickedLogs(p.type))
              /\ Range(p.affected_files) =
                     { KeyOf(det_log[i], "file_id") : i \in PickedLogs(p.type) }
              /\ Range(p.error_messages) \subseteq
                     { MsgOf(det_log[i]) : i \in PickedLogs(p.type) }

\* a summary with an API pattern, from an input holding a 404 record of a file
\* that is no failed log's and a log that did not fail
C9_Witness ==
    /\ det_pc = "done"
    /\ summary.patterns.api # <<>>
    /\ \E i \in 1..Len(det_har) :
          /\ StatusOrZero(det_har[i]) = Num(404)
          /\ KeyOf(det_har[i], "file_id") \notin FailedIds
    /\ \E i \in 1..Len(det_log) : i \notin FailedIndices

\* C10: constructing the detector and calling generate_summary never raises.
C10_NeverRaises == det_pc # "raised"

\* the indicators of the rule whose pattern has this type
IndicatorsOf(type) ==
    IF type = "cookie_session_failure" THEN AuthIndicators ELSE VerificationIndicators

\* the failed logs given to the detector of which one single step holds an
\* indicator of the rule
PickedByAStep(type) ==
    { i \in FailedIndices :
        LET steps == Get(det_log[i], "steps", <<>>) IN
        \E k \in 1..Len(steps) : \E ind \in IndicatorsOf(type) : Contains(steps[k], ind) }

\* C11: a failed log qualifies for the authentication rule, and for the
\* verification rule, exactly when one single step of it holds an indicator of the
\* rule: the rule's pattern is there exactly when some failed log has such a step,
\* and counts exactly the logs that have one.
C11_QualificationPerStep ==
    det_pc = "done" =>
        /\ (summary.patterns.authentication # <<>>) =
               (PickedByAStep("cookie_session_failure") # {})
        /\ (summary.patterns.verification # <<>>) =
               (PickedByAStep("card_verification_failure") # {})
        /\ \A p \in Range(summary.patterns.authentication)
                        \cup Range(summary.patterns.verification) :
              p.frequency = Cardinality(PickedByAStep(p.type))

\* the failed logs given to the detector that qualify for the rule, in log order
QualifyingLogs(type) ==
    SelectSeq(det_log, LAMBDA log : /\ Get(log, "status", "") = "failed"
                                    /\ Qualifies(log, IndicatorsOf(type)))

\* what C12 says of the patterns ps of the rule of this type
OnePatternOver(ps, type) ==
    LET q == QualifyingLogs(type) IN
    IF q = <<>> THEN ps = <<>>
    ELSE /\ Len(ps) = 1
         /\ ps[1].type = type
         /\ ps[1].severity = "high"
         /\ ps[1].frequency = Len(q)
         /\ ps[1].affected_files = [ i \in 1..Len(q) |-> KeyOf(q[i], "file_id") ]
         /\ Len(ps[1].affected_files) = ps[1].frequency

\* C12: each of the two log rules gives one pattern when some failed log
\* qualifies and none otherwise; its frequency is the number of qualifying logs,
\* its affected_files their file ids in log order, repeated ones kept, and its
\* severity is high.
C12_LogRuleAggregation ==
    det_pc = "done" =>
        /\ OnePatternOver(summary.patterns.authentication, "cookie_session_failure")
        /\ OnePatternOver(summary.patterns.verification, "card_verification_failure")

\* an authentication pattern over two logs of one file
C12_Witness ==
    /\ det_pc = "done"
    /\ Len(summary.patterns.authentication) = 1
    /\ summary.patterns.authentication[1].frequency = 2
    /\ summary.patterns.authentication[1].affected_files[1] =
           summary.patterns.authentication[1].affected_files[2]

\* the records of the restricted HAR set with this status
RestrictedWith(code) ==
    { i \in 1..Len(self_har_data) : StatusOrZero(self_har_data[i]) = Num(code) }

CodeOf(type) == IF type = "endpoint_not_found" THEN 404 ELSE 500

\* the error messages, null and empty ones left out, of the records behind p
ContributedMessages(p) ==
    { m \in IF p.type \in {"endpoint_not_found", "server_error"}
            THEN { MsgOf(self_har_data[i]) : i \in RestrictedWith(CodeOf(p.type)) }
            ELSE { MsgOf(det_log[i]) : i \in PickedLogs(p.type) } : Truthy(m) }

\* C13: in every pattern of every rule, error_messages holds no null, no value
\* twice, and each message of the contributing records exactly once.
C13_PatternDedup ==
    det_pc = "done" =>
        \A p \in Range(summary.patterns.authentication)
                     \cup Range(summary.patterns.api)
                     \cup Range(summary.patterns.verification) :
            /\ \A i \in 1..Len(p.error_messages) : p.error_messages[i] # None
            /\ \A i, j \in 1..Len(p.error_messages) :
                  i # j => p.error_messages[i] # p.error_messages[j]
            /\ Range(p.error_messages) = ContributedMessages(p)

\* a pattern over two records with the same message, which it lists once
C13_Witness ==
    /\ det_pc = "done"
    /\ \E p \in Range(summary.patterns.api) \cup Range(summary.patterns.authentication) :
          /\ p.frequency = 2
          /\ Len(p.error_messages) = 1

\* what C14 says of the pattern p for this status code
ApiPatternOver(p, type) ==
    LET E == RestrictedWith(CodeOf(type))
        ids == { Str(self_har_data[i].file_id) : i \in E }
    IN  /\ p.type = type
        /\ p.frequency = Cardinality(E)
        /\ Range(p.affected_files) = ids
        /\ Len(p.affected_files) = Cardinality(ids)

\* C14: the api category holds an endpoint_not_found pattern exactly when the
\* restricted HAR set has a record with status 404, a server_error pattern
\* exactly when it has one with status 500, in this order and nothing else; each
\* counts the records with its status and lists their distinct file ids.
C14_ApiRule ==
    det_pc = "done" =>
        LET a == summary.patterns.api
            n404 == IF RestrictedWith(404) # {} THEN 1 ELSE 0
            n500 == IF RestrictedWith(500) # {} THEN 1 ELSE 0
        IN  /\ Len(a) = n404 + n500
            /\ (n404 = 1 => ApiPatternOver(a[1], "endpoint_not_found"))
            /\ (n500 = 1 => ApiPatternOver(a[n404 + 1], "server_error"))

\* a summary with both API patterns
C14_Witness ==
    /\ det_pc = "done"
    /\ Len(summary.patterns.api) = 2
    /\ summary.patterns.api[1].type = "endpoint_not_found"
    /\ summary.patterns.api[2].type = "server_error"

\* C15: a summary returned has total_failures equal to the number of logs with
\* status failed, matched by a rule or not, patterns with exactly the keys
\* authentication, api and verification, and pattern_distribution[c] equal to
\* the length of patterns[c] for each of them.
C15_SummaryShape ==
    det_pc = "done" =>
        /\ summary.total_failures = Cardinality(FailedIndices)
        /\ DOMAIN summary.patterns = {"authentication", "api", "verification"}
        /\ DOMAIN summary.pattern_distribution = DOMAIN summary.patterns
        /\ \A c \in DOMAIN summary.patterns :
              summary.pattern_distribution[c] = Len(summary.patterns[c])

\* two failed logs that no rule matches
C15_Witness ==
    /\ det_pc = "done"
    /\ summary.total_failures = 2
    /\ \A c \in DOMAIN summary.patterns : summary.patterns[c] = <<>>

-----------------------------------------------------------------------------
(* Claims about the correlator *)

\* the HAR records given to the correlator that have the file_id of log i
MatchingHars(i) ==
    { k \in 1..Len(flow_har) : flow_har[k].file_id = flow_log[i].file_id }

RECURSIVE SizeSum(_)
SizeSum(M) ==
    IF M = {} THEN 0
    ELSE LET k == CHOOSE x \in M : TRUE
         IN  Get(flow_har[k], "response_size", 0) + SizeSum(M \ {k})

\* C16: the frame returned has one row for each log entry, in log order; its
\* api_calls is the number of HAR records with the log's file_id, its
\* total_response_size the sum of their response_size, its steps_completed the
\* number of steps; with no such HAR record these are 0 and 0 and the three
\* sequence strings are empty.
C16_FlowAggregation ==
    flow_pc = "done" =>
        /\ Len(flow_df.rows) = Len(flow_log)
        /\ \A i \in 1..Len(flow_log) :
              LET r == flow_df.rows[i] IN
              /\ r.file_id = flow_log[i].file_id
              /\ r.api_calls = Cardinality(MatchingHars(i))
              /\ r.total_response_size = SizeSum(MatchingHars(i))
              /\ r.steps_completed = Len(Get(flow_log[i], "steps", <<>>))
              /\ (MatchingHars(i) = {} =>
                    /\ r.api_calls = 0
                    /\ r.total_response_size = 0
                    /\ r.flow_sequence = <<>>
                    /\ r.detailed_flow = <<>>
                    /\ r.flow_status = <<>>)

\* two rows, one over two HAR records and one over none
C16_Witness ==
    /\ flow_pc = "done"
    /\ Len(flow_df.rows) = 2
    /\ flow_df.rows[1].api_calls = 2
    /\ flow_df.rows[1].total_response_size = 15
    /\ flow_df.rows[2].api_calls = 0
    /\ flow_df.rows[2].flow_sequence = <<>>

\* a HarEntry in the canonical form: exactly the eight keys
IsCanonicalHar(e) ==
    DOMAIN e = { "file_id", "url", "method", "status_code", "response_time",
                 "response_size", "request_headers", "error_message" }

\* the canonical HAR records with this file_id, in their order
CanonicalHarsOf(file_id) ==
    SelectSeq(flow_har, LAMBDA e : IsCanonicalHar(e) /\ e.file_id = file_id)

\* C17: when the HAR records are canonical, the row of a log entry has as
\* flow_sequence the ' -> ' join of the route base segments of the urls of its
\* HAR records, as detailed_flow the join of their full paths and as flow_status
\* the join of 'base(status_code)'.
C17_SequenceStrings ==
    (flow_pc = "done" /\ \A k \in 1..Len(flow_har) : IsCanonicalHar(flow_har[k])) =>
        \A i \in 1..Len(flow_log) :
            LET hs == CanonicalHarsOf(flow_log[i].file_id)
                r == flow_df.rows[i]
                route(k) == get_route_sequence(hs[k].url)
            IN  /\ r.flow_sequence = Join([ k \in 1..Len(hs) |-> <<route(k).base>> ], Arrow)
                /\ r.detailed_flow = Join([ k \in 1..Len(hs) |-> route(k).full_path ], Arrow)
                /\ r.flow_status =
                       Join([ k \in 1..Len(hs) |->
                                <<route(k).base, "(", StatusRepr(hs[k]), ")">> ], Arrow)

-----------------------------------------------------------------------------
(* Claims about the JSON log files *)

\* the record the for-log loop takes next
NextRecord == json_logs[json_pos + 1]

\* C25 (as claimed): every record whose jsonPayload has an 'error' field, and
\* whose message is neither a start marker nor a Task URL line, emits the line
\* 'Traceback (most recent call last):', then the lines of its stack trace if it
\* has one, then the error text.
C25_ErrorRecordEmitsTraceback ==
    [][ (JsonRecord /\ "error" \in DOMAIN PayloadOf(NextRecord)
           /\ ~Contains(MessageOf(NextRecord), StartMarker)
           /\ ~Contains(MessageOf(NextRecord), TaskUrlMarker)) =>
          traditional_lines' =
              ((traditional_lines \o <<SyntheticTraceback>>)
                 \o (IF "stacktrace" \in DOMAIN PayloadOf(NextRecord)
                     THEN SplitNl(PayloadOf(NextRecord).stacktrace) ELSE <<>>))
                 \o <<PayloadOf(NextRecord).error>>
      ]_vars

\* the plain text made of the messages of the records, one per line
MessagesText(logs) == JoinNl([ i \in 1..Len(logs) |-> MessageOf(logs[i]) ])

\* C26 (as claimed): for records without 'error' fields and with single-line
\* messages, the entries obtained through the conversion are the entries the
\* line scanner yields on the text of the messages, one per line, in timestamp
\* order (input order when a record has no timestamp).
C26_JsonAsPlainText ==
    (/\ json_pc = "done"
     /\ \A i \in 1..Len(json_logs) :
           /\ "error" \notin DOMAIN PayloadOf(json_logs[i])
           /\ ~Contains(MessageOf(json_logs[i]), <<NL>>))
    => json_results = ScanAll(JsonFileName, SplitLines(MessagesText(SortedLogs(json_logs))))

====
